---- MODULE Spec2Model ----
(***************************************************************************)
(* Model of the gem5-ILP helper scripts.                                   *)
(*                                                                         *)
(*   SpecSweep  - compare_widths.py: the width x predictor sweep, its CSV  *)
(*                report, the per-cell detail files and the summary.       *)
(*   SpecTrace  - pipeline_view.py: the trace parser, the active-cycle     *)
(*                detector and the pipeline visualizer.                    *)
(*                                                                         *)
(* A text is a sequence of strings whose concatenation is the text: single *)
(* characters wherever the code looks inside the text (trace lines,        *)
(* numbers), whole words where it only copies it (names, child output).    *)
(***************************************************************************)
EXTENDS Integers, Sequences, FiniteSets, TLC

\* ------------------------------------------------------------------ bounds

\* Largest number of sweep cells (len(WIDTHS) * len(BP_TYPES)) explored.
MaxCells == 4

\* ------------------------------------------------------- generic helpers

SeqsUpTo(S, n) == UNION {[1..k -> S] : k \in 0..n}

RECURSIVE Concat(_)
\* Concatenation of a sequence of texts.
Concat(ss) == IF ss = <<>> THEN <<>> ELSE Head(ss) \o Concat(Tail(ss))

Digits == <<"0", "1", "2", "3", "4", "5", "6", "7", "8", "9">>

IsDigit(c) == \E d \in 1..10 : Digits[d] = c

DigitVal(c) == (CHOOSE d \in 1..10 : Digits[d] = c) - 1

RECURSIVE StrNat(_)
\* str(n) for n >= 0: the decimal digits, most significant first.
StrNat(n) == IF n < 10 THEN <<Digits[n + 1]>>
             ELSE StrNat(n \div 10) \o <<Digits[(n % 10) + 1]>>

\* str(n) of a Python int.
Str(n) == IF n < 0 THEN <<"-">> \o StrNat(0 - n) ELSE StrNat(n)

RECURSIVE NatVal(_, _)
NatVal(s, acc) == IF s = <<>> THEN acc
                  ELSE NatVal(Tail(s), 10 * acc + DigitVal(Head(s)))

\* Whether int(s) accepts the (already stripped) text s: an optional sign
\* followed by one or more digits.
IsIntText(s) ==
    LET body == IF s # <<>> /\ Head(s) \in {"-", "+"} THEN Tail(s) ELSE s
    IN  body # <<>> /\ \A i \in 1..Len(body) : IsDigit(body[i])

\* int(s) for a text IsIntText accepts.
ParseInt(s) ==
    IF Head(s) = "-" THEN 0 - NatVal(Tail(s), 0)
    ELSE IF Head(s) = "+" THEN NatVal(Tail(s), 0)
    ELSE NatVal(s, 0)


\* ======================================================================
\* compare_widths.py: the sweep orchestrator
\* ======================================================================

VARIABLES
    WIDTHS,        \* the list of pipeline widths swept (line 9)
    BP_TYPES,      \* the list of predictor types swept (line 12)
    sweep_pc,      \* position of the script
    cell,          \* 1-based position of the loops in SweepCells
    children,      \* cells whose simulator child process is running
    process,       \* the CompletedProcess of the current cell
    wall_time,     \* wall time of the current cell, in milliseconds
    csv_file,      \* rows of superscalar_results/comparison_results.csv
    detail_files,  \* the width_<w>_<bp>.txt files: name -> content
    report_file    \* summary_report.txt: its wall-time table

sweepVars == <<WIDTHS, BP_TYPES, sweep_pc, cell, children, process,
               wall_time, csv_file, detail_files, report_file>>

\* Values the swept lists are drawn from.
WidthValues == {1, 2}
BpValues == {"TournamentBP", "LocalBP"}

\* Wall times (ms) a cell may take, and what a child may print.
WallTimes == {1234, 2468}
ChildResults ==
    { [returncode |-> 0, stdout |-> <<"stats">>, stderr |-> <<>>],
      [returncode |-> 1, stdout |-> <<>>, stderr |-> <<"fatal">>] }

NoProcess == [returncode |-> 0, stdout |-> <<>>, stderr |-> <<>>]

\* A file that does not exist.
Absent == <<"<absent>">>

\* The summary report before it is written.
NoReport == [written |-> FALSE, heading |-> <<>>, rows |-> <<>>]

\* What the results directory may hold before the script starts.
StaleCsv == { <<>>, << << <<"old">> >> >> }

\* writer.writerow(["Width", "Branch Predictor", "Wall Time", "Output"])
CsvHeader == << <<"Width">>, <<"Branch Predictor">>, <<"Wall Time">>, <<"Output">> >>

RECURSIVE SweepCellsSwapped(_, _)
\* The loops nested the other way round (mutant of SweepCells).
SweepCellsSwapped(ws, bs) ==
    IF bs = <<>> THEN <<>>
    ELSE [i \in 1..Len(ws) |-> <<ws[i], Head(bs)>>] \o SweepCellsSwapped(ws, Tail(bs))

RECURSIVE SweepCells(_, _)
\* for width in WIDTHS: for bp_type in BP_TYPES: the cells in loop order.
SweepCells(ws, bs) ==
    IF ws = <<>> THEN <<>>
    ELSE [j \in 1..Len(bs) |-> <<Head(ws), bs[j]>>] \o SweepCells(Tail(ws), bs)

Cells == SweepCells(WIDTHS, BP_TYPES)
width == Cells[cell][1]
bp_type == Cells[cell][2]

\* subprocess.run returns at once, as Popen would (mutant of RunHasReturned).
RunHasReturnedNoWait(ch) == TRUE

\* subprocess.run(cmd, ...) returns only when the child has exited.
RunHasReturned(ch) == ch = {}

\* output = process.stdout + process.stderr
Output(p) == p.stdout \o p.stderr

\* writer.writerow([width, bp_type, wall_time, output]): every field as text.
CsvRow(w, bp, wt, p) == << Str(w), <<bp>>, Str(wt), Output(p) >>

\* open(csv_file, "w") used for the row too (mutant of AppendToCsv).
AppendToCsvTruncating(file, row) == <<row>>

\* with open(csv_file, "a", newline='') as f: writer.writerow(row)
AppendToCsv(file, row) == Append(file, row)

\* f"superscalar_results/width_{width}_{bp_type}.txt"
OutputFileName(w, bp) == <<w, bp>>

DetailNames == {OutputFileName(w, bp) : w \in WidthValues, bp \in BpValues}

\* f"{wall_time:.2f}" of a wall time given in ms: seconds, two decimals.
Fmt2(ms) ==
    LET cs == (ms + 5) \div 10
    IN  Str(cs \div 100) \o <<".">> \o <<Digits[((cs \div 10) % 10) + 1]>>
                         \o <<Digits[(cs % 10) + 1]>>

\* The header line of the wall-time table (line 58).
ReportHeading ==
    << <<"Width">>, <<"TournamentBP">>, <<"LocalBP">>, <<"BiModeBP">>, <<"StaticBP">> >>

RECURSIVE FindWallTime(_, _, _)
\* Lines 65-72: scan the data rows in file order; the first row whose
\* int(row[0]) is the width and whose row[1] is the type gives the cell
\* float(row[2]) formatted; no such row writes nothing.
FindWallTime(rows, w, bp) ==
    IF rows = <<>> THEN <<>>
    ELSE IF ParseInt(Head(rows)[1]) = w /\ Head(rows)[2] = <<bp>>
         THEN << Fmt2(ParseInt(Head(rows)[3])) >>
         ELSE FindWallTime(Tail(rows), w, bp)

\* Lines 61-73: one table line per width; next(reader) skips the header.
ReportRow(file, w, bs) ==
    << Str(w) >> \o Concat([j \in 1..Len(bs) |-> FindWallTime(Tail(file), w, bs[j])])

ReportRows(file, ws, bs) == [i \in 1..Len(ws) |-> ReportRow(file, ws[i], bs)]

InitSweepVars ==
    /\ WIDTHS \in SeqsUpTo(WidthValues, MaxCells)
    /\ BP_TYPES \in SeqsUpTo(BpValues, MaxCells)
    /\ Len(WIDTHS) * Len(BP_TYPES) <= MaxCells
    /\ sweep_pc = "start"
    /\ cell = 1
    /\ children = {}
    /\ process = NoProcess
    /\ wall_time = 0
    /\ csv_file \in StaleCsv
    /\ detail_files = [n \in DetailNames |-> Absent]
    /\ report_file = NoReport

\* Lines 17-21: the CSV file is created (truncated) and the header written.
WriteHeader ==
    /\ sweep_pc = "start"
    /\ csv_file' = <<CsvHeader>>
    /\ sweep_pc' = "loop"
    /\ UNCHANGED <<WIDTHS, BP_TYPES, cell, children, process, wall_time,
                   detail_files, report_file>>

\* Lines 24-31: the next cell's child process is started.
LaunchSimulation ==
    /\ sweep_pc = "loop"
    /\ cell <= Len(Cells)
    /\ children' = children \cup {cell}
    /\ process' = NoProcess
    /\ sweep_pc' = "run"
    /\ UNCHANGED <<WIDTHS, BP_TYPES, cell, wall_time, csv_file, detail_files,
                   report_file>>

\* Line 31: subprocess.run raises (the executable cannot be started, the
\* output cannot be decoded); nothing catches it and the script ends.
RunRaises ==
    /\ \/ sweep_pc = "loop" /\ cell <= Len(Cells)
       \/ sweep_pc = "run" /\ RunHasReturned(children)
    /\ sweep_pc' = "crashed"
    /\ UNCHANGED <<WIDTHS, BP_TYPES, cell, children, process, wall_time,
                   csv_file, detail_files, report_file>>

\* The simulator child exits, with any exit status.
ChildExits ==
    /\ \E c \in children, r \in ChildResults :
          /\ children' = children \ {c}
          /\ process' = IF c = cell /\ sweep_pc = "run" THEN r ELSE process
    /\ UNCHANGED <<WIDTHS, BP_TYPES, sweep_pc, cell, wall_time, csv_file,
                   detail_files, report_file>>

\* Lines 31-32: subprocess.run returns and the wall time is taken.
RunReturns ==
    /\ sweep_pc = "run"
    /\ RunHasReturned(children)
    /\ \E t \in WallTimes : wall_time' = t
    /\ sweep_pc' = "save_csv"
    /\ UNCHANGED <<WIDTHS, BP_TYPES, cell, children, process, csv_file,
                   detail_files, report_file>>

\* Lines 35-38: the cell's row is appended to the CSV file.
AppendRow ==
    /\ sweep_pc = "save_csv"
    /\ csv_file' = AppendToCsv(csv_file, CsvRow(width, bp_type, wall_time, process))
    /\ sweep_pc' = "save_detail"
    /\ UNCHANGED <<WIDTHS, BP_TYPES, cell, children, process, wall_time,
                   detail_files, report_file>>

\* Lines 41-46: the detail file is written; the loops move to the next cell.
WriteDetail ==
    /\ sweep_pc = "save_detail"
    /\ detail_files' =
          [detail_files EXCEPT ![OutputFileName(width, bp_type)] = Output(process)]
    /\ cell' = cell + 1
    /\ sweep_pc' = "loop"
    /\ UNCHANGED <<WIDTHS, BP_TYPES, children, process, wall_time, csv_file,
                   report_file>>

\* Lines 48-89: after the loops, the summary report is generated.
GenerateSummary ==
    /\ sweep_pc = "loop"
    /\ cell > Len(Cells)
    /\ report_file' = [written |-> TRUE,
                       heading |-> ReportHeading,
                       rows |-> ReportRows(csv_file, WIDTHS, BP_TYPES)]
    /\ sweep_pc' = "done"
    /\ UNCHANGED <<WIDTHS, BP_TYPES, cell, children, process, wall_time,
                   csv_file, detail_files>>


\* ======================================================================
\* pipeline_view.py: trace parser, active-cycle detector, visualizer
\* ======================================================================

\* Most lines read from one trace file.
MaxLines == 3

\* Largest --cycles value explored.
MaxShow == 2

VARIABLES
    trace_pc,       \* position of the script
    nread,          \* number of lines of the trace file read so far
    line_src,       \* how the line just read was laid out (see MkLine)
    line,           \* the line just read, character by character
    stages,         \* stage name -> list of <<cycle, state>>
    args,           \* the parsed command line
    active_cycles,  \* result of find_active_cycles
    start_cycle,    \* first cycle of the window shown
    grid,           \* the cycle_info list of every data row printed
    data_rows       \* the data rows printed, character by character

traceVars == <<trace_pc, nread, line_src, line, stages, args, active_cycles,
               start_cycle, grid, data_rows>>

StageNames == <<"Fetch1", "Fetch2", "Execute", "Memory", "Commit">>

ACTIVITY == <<"a", "c", "t", "i", "v", "i", "t", "y", "=">>
STAGES == <<"s", "t", "a", "g", "e", "s", "=">>
Whitespace == {" ", "\n", "\t"}

\* --------------------------------------------------- str methods used

\* Index of the first occurrence of pat in s, 0 when there is none.
FindFirst(s, pat) ==
    LET hits == {i \in 1..(Len(s) - Len(pat) + 1) :
                    SubSeq(s, i, i + Len(pat) - 1) = pat}
    IN  IF hits = {} THEN 0 ELSE CHOOSE i \in hits : \A j \in hits : i <= j

\* pat in s
Contains(s, pat) == FindFirst(s, pat) # 0

RECURSIVE Split(_, _)
\* s.split(sep)
Split(s, sep) ==
    LET i == FindFirst(s, sep)
    IN  IF i = 0 THEN <<s>>
        ELSE <<SubSeq(s, 1, i - 1)>> \o Split(SubSeq(s, i + Len(sep), Len(s)), sep)

RECURSIVE LStrip(_)
LStrip(s) == IF s # <<>> /\ Head(s) \in Whitespace THEN LStrip(Tail(s)) ELSE s

RECURSIVE RStrip(_)
RStrip(s) == IF s # <<>> /\ s[Len(s)] \in Whitespace
             THEN RStrip(SubSeq(s, 1, Len(s) - 1)) ELSE s

\* s.strip()
Strip(s) == RStrip(LStrip(s))

RECURSIVE Join(_, _)
\* sep.join(parts)
Join(parts, sep) ==
    IF parts = <<>> THEN <<>>
    ELSE IF Len(parts) = 1 THEN Head(parts)
    ELSE Head(parts) \o sep \o Join(Tail(parts), sep)

Spaces(n) == [i \in 1..n |-> " "]

\* s.rjust(n)
RJust(s, n) == IF Len(s) >= n THEN s ELSE Spaces(n - Len(s)) \o s

\* f'{s:^3}': centred in three columns, the odd blank on the right; a longer
\* text is not cut.
Center3(s) ==
    IF Len(s) >= 3 THEN s
    ELSE LET pad == 3 - Len(s)
             left == pad \div 2
         IN  Spaces(left) \o s \o Spaces(pad - left)

\* ------------------------------------------------------ the trace file

\* The lines a trace file may hold: a cycle prefix, a colon, the activity
\* marker, the stages marker with its comma-separated states, a newline.
WellFormed(pre, toks) ==
    [pre |-> pre, colon |-> TRUE, act |-> TRUE, stg |-> TRUE, toks |-> toks]

tF == <<"F">>
tE == <<"E">>
tM == <<"M">>
tC == <<"C">>
tDash == <<"-">>
tEmpty == <<>>
tLong == <<"E", "x", "e", "c">>

LineSrcs ==
    { WellFormed(<<"7">>, <<tF, tF, tE, tM, tC>>),
      WellFormed(<<"7">>, <<tE, tE, tE, tE, tE>>),
      WellFormed(<<" ", "8">>, <<tDash, tDash, tE, tDash, tDash>>),
      WellFormed(<<"8">>, <<tE, tDash, tLong, tEmpty, tC, tF>>),
      WellFormed(<<"8">>, <<tF, tF, tE, tM>>),
      WellFormed(<<"x">>, <<tF, tF, tE, tM, tC>>),
      [pre |-> <<"8">>, colon |-> TRUE, act |-> FALSE, stg |-> TRUE,
       toks |-> <<tF, tF, tE, tM, tC>>],
      [pre |-> <<"8">>, colon |-> TRUE, act |-> TRUE, stg |-> FALSE,
       toks |-> <<>>],
      [pre |-> <<"8">>, colon |-> FALSE, act |-> TRUE, stg |-> TRUE,
       toks |-> <<tF, tF, tE, tM, tC>>],
      [pre |-> <<>>, colon |-> FALSE, act |-> FALSE, stg |-> FALSE,
       toks |-> <<>>] }

\* The text of a line laid out as src, e.g. "7: activity=1 stages=F,F,E,M,C\n".
MkLine(src) ==
    src.pre
    \o (IF src.colon THEN <<":">> ELSE <<>>)
    \o (IF src.act THEN <<" ">> \o ACTIVITY \o <<"1">> ELSE <<>>)
    \o (IF src.stg THEN <<" ">> \o STAGES \o Join(src.toks, <<",">>) ELSE <<>>)
    \o <<"\n">>

NoLine == [pre |-> <<>>, colon |-> FALSE, act |-> FALSE, stg |-> FALSE,
           toks |-> <<>>]

\* ------------------------------------------------ parse_pipeline_trace

EmptyStages == [n \in {StageNames[k] : k \in 1..5} |-> <<>>]

\* if 'activity=' in line and 'stages=' in line
HasMarkers(l) == Contains(l, ACTIVITY) /\ Contains(l, STAGES)

\* line.split(':')[0].strip(), the argument of int()
CycleText(l) == Strip(Split(l, <<":">>)[1])

\* The states taken without strip() (mutant of StageStates).
StageStatesNoStrip(l) == Split(Split(l, STAGES)[2], <<",">>)

\* line.split('stages=')[1].strip().split(',')
StageStates(l) == Split(Strip(Split(l, STAGES)[2]), <<",">>)

\* The entry of Commit is left out (mutant of AppendEntry).
AppendEntryNoCommit(st, cycle, states) ==
    [n \in DOMAIN st |->
        LET k == CHOOSE k \in 1..5 : StageNames[k] = n
        IN  IF n = "Commit" THEN st[n] ELSE Append(st[n], <<cycle, states[k]>>)]

\* Lines 24-28: one <<cycle, state>> appended to each of the five stages.
AppendEntry(st, cycle, states) ==
    [n \in DOMAIN st |->
        LET k == CHOOSE k \in 1..5 : StageNames[k] = n
        IN  Append(st[n], <<cycle, states[k]>>)]

\* The stages after the loop body (lines 15-28) has run on line l; int()
\* raising ValueError is the other outcome, see LineRaises.
ParseLine(st, l) ==
    IF HasMarkers(l) /\ Len(StageStates(l)) >= 5
    THEN AppendEntry(st, ParseInt(CycleText(l)), StageStates(l))
    ELSE st

\* Line 17: int() raises ValueError on the text before the first colon.
LineRaises(l) == HasMarkers(l) /\ ~IsIntText(CycleText(l))

\* -------------------------------------------------- find_active_cycles

\* Only 'E' counts as idle (mutant of IsActiveState).
IsActiveStateOnlyE(state) == state # <<"E">>

\* if state != 'E' and state != '-'
IsActiveState(state) == state # <<"E">> /\ state # <<"-">>

RECURSIVE Sorted(_)
\* sorted(list(S)) of a set of ints
Sorted(S) ==
    IF S = {} THEN <<>>
    ELSE LET m == CHOOSE x \in S : \A y \in S : x <= y
         IN  <<m>> \o Sorted(S \ {m})

RECURSIVE ActiveOf(_)
\* The cycles of the active entries of one stage, in list order.
ActiveOf(stage_data) ==
    IF stage_data = <<>> THEN <<>>
    ELSE (IF IsActiveState(Head(stage_data)[2]) THEN <<Head(stage_data)[1]>> ELSE <<>>)
         \o ActiveOf(Tail(stage_data))

\* The active cycles collected in a list, never a set (mutant of
\* find_active_cycles).
find_active_cycles_list(st) ==
    Concat([k \in 1..5 |-> ActiveOf(st[StageNames[k]])])

\* Lines 32-39.
find_active_cycles(st) ==
    LET found == Concat([k \in 1..5 |-> ActiveOf(st[StageNames[k]])])
    IN  Sorted({found[i] : i \in 1..Len(found)})

\* ---------------------------------------- print_pipeline_visualization

IdleCell == <<" ", " ", "-", " ", " ">>

RECURSIVE StateCell(_, _)
\* Lines 50-54: the cell of cycle i in one stage: the first entry recorded
\* for the cycle, else the idle marker.
StateCell(stage_data, i) ==
    IF stage_data = <<>> THEN IdleCell
    ELSE IF Head(stage_data)[1] = i
         THEN <<" ">> \o Center3(Head(stage_data)[2]) \o <<" ">>
         ELSE StateCell(Tail(stage_data), i)

\* Lines 47-55: cycle_info of cycle i.
CycleInfo(st, i) ==
    <<RJust(Str(i), 7)>> \o [k \in 1..5 |-> StateCell(st[StageNames[k]], i)]

\* range(start, start + num) stopping one short (mutant of WindowCycles).
WindowCyclesShort(start, num) ==
    IF num <= 1 THEN <<>> ELSE [k \in 1..(num - 1) |-> start + k - 1]

\* range(start_cycle, start_cycle + num_cycles), as a list
WindowCycles(start, num) ==
    IF num <= 0 THEN <<>> ELSE [k \in 1..num |-> start + k - 1]

\* Lines 46-57: the cycle_info of every row of the window.
VisualizationGrid(st, start, num) ==
    LET w == WindowCycles(start, num)
    IN  [k \in 1..Len(w) |-> CycleInfo(st, w[k])]

\* -------------------------------------------------------------- __main__

NoArgs == [start |-> <<>>, cycles |-> 0, show_active |-> FALSE]

\* --start is absent (<<>>) or an int; --cycles an int; --show-active a flag.
ArgValues ==
    [start : {<<>>, <<0>>, <<7>>, <<8>>},
     cycles : (0 - 1)..MaxShow,
     show_active : BOOLEAN]

InitTraceVars ==
    /\ trace_pc = "parse"
    /\ nread = 0
    /\ line_src = NoLine
    /\ line = <<>>
    /\ stages = EmptyStages
    /\ args = NoArgs
    /\ active_cycles = <<>>
    /\ start_cycle = 0
    /\ grid = <<>>
    /\ data_rows = <<>>

\* Lines 14-28: the next line of the file is read and handled.
ReadLine ==
    /\ trace_pc = "parse"
    /\ nread < MaxLines
    /\ \E src \in LineSrcs :
          /\ line_src' = src
          /\ line' = MkLine(src)
          /\ IF LineRaises(MkLine(src))
             THEN trace_pc' = "error" /\ stages' = stages
             ELSE trace_pc' = "parse" /\ stages' = ParseLine(stages, MkLine(src))
    /\ nread' = nread + 1
    /\ UNCHANGED <<args, active_cycles, start_cycle, grid, data_rows>>

\* Lines 30, 66-67: the file ends and the stages are returned to __main__,
\* run with some command line.
ParseReturns ==
    /\ trace_pc = "parse"
    /\ \E a \in ArgValues : args' = a
    /\ trace_pc' = "main"
    /\ UNCHANGED <<nread, line_src, line, stages, active_cycles, start_cycle,
                   grid, data_rows>>

\* Lines 69-74: with --show-active the active cycles are looked up and may
\* set the start.
ShowActive ==
    /\ trace_pc = "main"
    /\ args.show_active
    /\ active_cycles' = find_active_cycles(stages)
    /\ args' = IF find_active_cycles(stages) # <<>> /\ args.start \in {<<>>, <<0>>}
               THEN [args EXCEPT !.start = <<find_active_cycles(stages)[1]>>]
               ELSE args
    /\ trace_pc' = "show"
    /\ UNCHANGED <<nread, line_src, line, stages, start_cycle, grid, data_rows>>

\* Lines 76-77: the window is printed.
Visualize ==
    /\ \/ trace_pc = "show"
       \/ trace_pc = "main" /\ ~args.show_active
    /\ LET sc == IF args.start # <<>> THEN args.start[1] ELSE 500
           g == VisualizationGrid(stages, sc, args.cycles)
       IN  /\ start_cycle' = sc
           /\ grid' = g
           /\ data_rows' = [k \in 1..Len(g) |-> Join(g[k], <<" ", "|", " ">>)]
    /\ trace_pc' = "done"
    /\ UNCHANGED <<nread, line_src, line, stages, args, active_cycles>>

\* ======================================================================
\* the m5 configuration scripts: simple_smt_test.py, superscalar_simple.py,
\* superscalar_pipeline.py, branch_prediction.py
\* ======================================================================
\* One run of one script: the command line is parsed, the system is
\* configured, the simulator is called, and the statistics are read and
\* printed. The simulator itself (m5) is the environment: what its
\* statistics hold after a run is chosen freely.

\* The widths and thread counts tried on a command line are -1..MaxWidth.
MaxWidth == 2
\* A statistics counter, when present, holds a value of 0..MaxCount.
MaxCount == 2

VARIABLES
    script,         \* the script that runs
    run_pc,         \* where the run stands
    cli,            \* args: the parsed command line
    cpu,            \* system.cpu: the parameters the script has assigned
    branchPred,     \* system.cpu.branchPred
    sim_calls,      \* the number of calls of m5.simulate() so far
    stats,          \* the counters of system.cpu after the simulation
    elapsed,        \* end_tick - start_tick of branch_prediction.py, in ticks
    report,         \* the metrics and the notes printed
    exit_status,    \* <<>> while running, <<n>> when the process ended
    system,         \* the memory objects of the system and their links
    smoke_tests     \* the number of direct runs of the benchmark so far

runVars == <<script, run_pc, cli, cpu, branchPred, sim_calls, stats,
             elapsed, report, exit_status, system, smoke_tests>>

\* The four scripts with a command line, a caller that imports
\* superscalar_simple and calls create_superscalar_cpu itself, and
\* simple_pipeline.py, which takes no argument.
CliScripts == {"simple_smt_test.py", "superscalar_simple.py",
               "superscalar_pipeline.py", "branch_prediction.py"}
Scripts == CliScripts \cup {"create_superscalar_cpu", "simple_pipeline.py"}

\* ------------------------------------------------------ command lines

\* choices=[...] of the predictor option of each script.
BpChoices(s) ==
    IF s = "simple_smt_test.py" \/ s = "superscalar_simple.py"
    THEN {"StaticBP", "LocalBP", "TournamentBP", "BiModeBP"}
    ELSE IF s = "superscalar_pipeline.py"
    THEN {"NoBP", "StaticBP", "BiModeBP", "LocalBP", "TournamentBP"}
    ELSE IF s = "branch_prediction.py"
    THEN {"none", "static", "tournament", "bimode"}
    ELSE {}

\* The predictor names tried: every choice of every script and one name
\* no script knows.
BpInputs ==
    UNION {BpChoices(s) : s \in CliScripts} \cup {"PerceptronBP"}

\* type=int accepts every integer, negative ones and zero included.
ArgInts == (0 - 1)..MaxWidth

\* The values tried for --width: the scripts without the option get 0.
ArgWidths(s) ==
    IF s \in {"simple_smt_test.py", "superscalar_simple.py",
              "create_superscalar_cpu"}
    THEN ArgInts ELSE {0}

\* The values tried for --threads, which only simple_smt_test.py has.
ArgThreads(s) == IF s = "simple_smt_test.py" THEN ArgInts ELSE {0}

NoCli == [width |-> 0, threads |-> 0, bp_type |-> "", debug |-> FALSE]

\* --------------------------------------------------------- components

\* A predictor component: its class, the sub-components the script has
\* attached to it and the parameters the script has given it.
Component(class, subs, params) ==
    [class |-> class, subs |-> subs, params |-> params]

\* The predictor the CPU class comes with when the script assigns none.
DefaultPred == Component("default", {}, {})

\* cpu.branchPred = NULL
NullPred == Component("NULL", {}, {})

\* TournamentBP(localPredictorSize=2048, ..., choiceCtrBits=2)
TournamentParams ==
    {<<"localPredictorSize", 2048>>, <<"localCtrBits", 2>>,
     <<"globalPredictorSize", 8192>>, <<"globalCtrBits", 2>>,
     <<"choicePredictorSize", 8192>>, <<"choiceCtrBits", 2>>}

\* m5 checks an unsigned parameter when it is assigned: a negative value
\* raises TypeError, zero is accepted.
ParamAccepted(v) == v >= 0

NoCpu == [class |-> "none"]

\* --------------------------------------------------- simple_smt_test.py

\* Lines 55-63: only TournamentBP is assigned.
SmtBranchPred(bp) ==
    IF bp = "TournamentBP"
    THEN Component("TournamentBP", {}, TournamentParams)
    ELSE DefaultPred

\* The reorder buffer gets the multiplier of the queues (mutant of
\* SmtQueues).
SmtQueuesSame(w) ==
    [numROBEntries |-> w * 16, LQEntries |-> w * 16,
     SQEntries |-> w * 16, numIQEntries |-> w * 16]

\* Lines 49-52: the queue sizes derived from the width.
SmtQueues(w) ==
    [numROBEntries |-> w * 32, LQEntries |-> w * 16,
     SQEntries |-> w * 16, numIQEntries |-> w * 16]

\* Lines 36-52: the DerivO3CPU of simple_smt_test.py.
SmtCpu(w, t) ==
    LET q == SmtQueues(w)
    IN  [class |-> "DerivO3CPU", numThreads |-> t,
         fetchWidth |-> w, decodeWidth |-> w, renameWidth |-> w,
         dispatchWidth |-> w, issueWidth |-> w, wbWidth |-> w,
         commitWidth |-> w,
         numROBEntries |-> q.numROBEntries, LQEntries |-> q.LQEntries,
         SQEntries |-> q.SQEntries, numIQEntries |-> q.numIQEntries]

\* ------------------------------------------------ superscalar_simple.py

\* Lines 48-69: the predictor create_superscalar_cpu assigns; a name that
\* matches no branch leaves the MinorCPU as it was constructed.
SimpleBranchPred(bp) ==
    IF bp = "StaticBP" THEN Component("StaticBP", {}, {})
    ELSE IF bp = "LocalBP"
    THEN Component("LocalBP", {},
                   {<<"localPredictorSize", 2048>>, <<"localCtrBits", 2>>})
    ELSE IF bp = "TournamentBP"
    THEN Component("TournamentBP", {}, TournamentParams)
    ELSE IF bp = "BiModeBP"
    THEN Component("BiModeBP", {},
                   {<<"globalPredictorSize", 8192>>,
                    <<"choicePredictorSize", 8192>>, <<"choiceCtrBits", 2>>})
    ELSE DefaultPred

\* Lines 12-45: the MinorCPU of create_superscalar_cpu.
SimpleCpu(w) ==
    [class |-> "MinorCPU",
     executeCommitLimit |-> w, executeMemoryCommitLimit |-> w,
     executeInputBufferSize |-> w * 4, executeIssueLimit |-> w,
     executeLSQMaxStoreBufferStoresPerCycle |-> w,
     executeLSQRequestsQueueSize |-> w * 2,
     executeLSQStoreBufferSize |-> w * 4,
     executeLSQTransfersQueueSize |-> w * 2,
     executeMaxAccessesInMemory |-> w * 2, executeMemoryWidth |-> w,
     decodeInputWidth |-> w, decodeToExecuteForwardWidth |-> w,
     executeInputWidth |-> w, fetch1LineWidth |-> w,
     fetch1ToFetch2ForwardWidth |-> w, fetch2InputBufferSize |-> w * 2,
     fetch2ToDecodeForwardWidth |-> w]

\* ---------------------------------------------- superscalar_pipeline.py

\* The tournament component of lines 103-114 and of lines 117-120: the
\* class with a global and a local sub-component.
TournamentShape(params) ==
    Component("TournamentBP", {"globalPred", "localPred"}, params)

\* The local predictor gets a sub-component too (mutant of
\* configure_branch_predictor).
configure_branch_predictor_local(bp) ==
    IF bp = "NoBP" THEN NullPred
    ELSE IF bp = "LocalBP" THEN Component("LocalBP", {"localPred"}, {})
    ELSE IF bp \in {"StaticBP", "BiModeBP"}
    THEN Component(bp, {}, {})
    ELSE TournamentShape({})

\* Lines 88-120: the component configure_branch_predictor assigns to
\* cpu.branchPred.
configure_branch_predictor(bp) ==
    IF bp = "NoBP" THEN NullPred
    ELSE IF bp = "StaticBP" THEN Component("StaticBP", {}, {})
    ELSE IF bp = "BiModeBP" THEN Component("BiModeBP", {}, {})
    ELSE IF bp = "LocalBP" THEN Component("LocalBP", {}, {})
    ELSE IF bp = "TournamentBP"
    THEN TournamentShape({<<"globalPred.globalHistoryBits", 12>>,
                          <<"localPred.localHistoryBits", 10>>,
                          <<"localPred.localHistoryTableSize", 2048>>})
    ELSE TournamentShape({})

\* Lines 60-85: the DerivO3CPU of superscalar_pipeline.py with the four
\* width options at their default, 2.
PipelineCpu ==
    [class |-> "DerivO3CPU",
     fetchWidth |-> 2, decodeWidth |-> 2, renameWidth |-> 2,
     dispatchWidth |-> 2, issueWidth |-> 2, wbWidth |-> 2,
     commitWidth |-> 2, IntALU |-> 2]

\* ------------------------------------------------- branch_prediction.py

\* Lines 49-72: the predictor create_system assigns, with the size
\* options at their defaults.
BranchBranchPred(bp) ==
    IF bp = "none" THEN NullPred
    ELSE IF bp = "static" THEN Component("StaticBP", {}, {})
    ELSE IF bp = "tournament"
    THEN Component("TournamentBP", {},
                   TournamentParams \cup
                       {<<"BTBEntries", 4096>>, <<"RASSize", 16>>})
    ELSE IF bp = "bimode"
    THEN Component("BiModeBP", {},
                   {<<"globalPredictorSize", 8192>>, <<"globalCtrBits", 2>>,
                    <<"choicePredictorSize", 8192>>, <<"choiceCtrBits", 2>>,
                    <<"BTBEntries", 4096>>, <<"RASSize", 16>>})
    ELSE DefaultPred

\* Line 46: the X86MinorCPU of create_system.
BranchCpu == [class |-> "X86MinorCPU"]

\* ------------------------------------------------------ memory systems

\* A system: its memory objects and the links between their ports, each
\* written <<from, to>> in the direction of the memory controller.
System(objects, links) == [objects |-> objects, links |-> links]

NoSystem == System({}, {})

\* Both CPU ports to their L1 cache.
CpuToL1 == {<<"cpu.icache_port", "l1i">>, <<"cpu.dcache_port", "l1d">>}

\* system.mem_ctrl.port = system.membus.mem_side_ports and
\* system.system_port = system.membus.cpu_side_ports
BusToMemory == {<<"membus", "mem_ctrl">>, <<"system_port", "membus">>}

\* simple_smt_test.py lines 33, 68-118 and superscalar_simple.py lines
\* 95, 103-153: L1 caches, the L2 crossbar, the L2 cache, the bus.
CrossbarSystem ==
    System({"l1i", "l1d", "tol2bus", "l2", "membus", "mem_ctrl"},
           CpuToL1 \cup BusToMemory \cup
               {<<"l1i", "tol2bus">>, <<"l1d", "tol2bus">>,
                <<"tol2bus", "l2">>, <<"l2", "membus">>})

\* superscalar_pipeline.py lines 57, 204-248: the L1 caches are linked to
\* the L2 cache itself; no crossbar is created.
PipelineSystem ==
    System({"l1i", "l1d", "l2", "membus", "mem_ctrl"},
           CpuToL1 \cup BusToMemory \cup
               {<<"l1i", "l2">>, <<"l1d", "l2">>, <<"l2", "membus">>})

\* branch_prediction.py lines 43, 94-126: L1 caches on the bus, no L2.
BranchSystem ==
    System({"l1i", "l1d", "membus", "mem_ctrl"},
           CpuToL1 \cup BusToMemory \cup
               {<<"l1i", "membus">>, <<"l1d", "membus">>})

\* simple_pipeline.py lines 57-66: both CPU ports on the bus, no cache.
SimplePipelineSystem ==
    System({"membus", "mem_ctrl"},
           {<<"cpu.icache_port", "membus">>, <<"cpu.dcache_port", "membus">>,
            <<"membus", "mem_ctrl">>})

\* simple_pipeline.py lines 6-43: the class attributes of SimplePipeline
\* that fix its widths and buffers.
SimplePipelineCpu ==
    [class |-> "SimplePipeline",
     executeCommitLimit |-> 2, executeMemoryCommitLimit |-> 1,
     executeInputBufferSize |-> 4, executeIssueLimit |-> 1,
     executeLSQMaxStoreBufferStoresPerCycle |-> 1,
     executeLSQRequestsQueueSize |-> 2, executeLSQStoreBufferSize |-> 4,
     executeLSQTransfersQueueSize |-> 2, executeMaxAccessesInMemory |-> 2,
     executeMemoryWidth |-> 1,
     decodeInputWidth |-> 1, decodeToExecuteForwardWidth |-> 1,
     executeInputWidth |-> 1, fetch1LineWidth |-> 1,
     fetch1ToFetch2ForwardWidth |-> 1, fetch2InputBufferSize |-> 2,
     fetch2ToDecodeForwardWidth |-> 1]

\* ------------------------------------------------ the statistics surface

CounterNames ==
    {"numCycles", "committedInsts", "numInsts", "ipc", "cpi",
     "numBranches", "branchMispredicts",
     "lookups", "incorrect", "lookupIncorrect", "lookupCorrect"}

\* A counter is absent, <<>>, or holds its values: one for a scalar, one
\* per hardware thread for the committedInsts of simple_smt_test.py.
NoStats == [n \in CounterNames |-> <<>>]

Scalars == {<<>>} \cup {<<v>> : v \in 0..MaxCount}

\* The counters each script reads.
CountersRead(s) ==
    IF s = "simple_smt_test.py" THEN {"numCycles", "committedInsts"}
    ELSE IF s = "superscalar_simple.py"
    THEN {"numCycles", "committedInsts", "numInsts", "lookups", "incorrect"}
    ELSE IF s = "superscalar_pipeline.py"
    THEN {"numInsts", "numCycles", "ipc", "cpi",
          "numBranches", "branchMispredicts"}
    ELSE IF s = "branch_prediction.py"
    THEN {"lookupIncorrect", "lookupCorrect", "numInsts", "committedInsts"}
    ELSE {}

\* The per-thread vectors tried for t hardware threads: one value per
\* thread, or one thread short.
ThreadVectors(t) ==
    UNION {[1..n -> 0..MaxCount] : n \in {k \in {t - 1, t} : k >= 0}}

\* What one counter may hold after a simulation of script s with t
\* threads: the simulator decides. The counters ipc and cpi are only
\* printed, so one value stands for all.
CounterValues(s, t, n) ==
    IF n \notin CountersRead(s) THEN {<<>>}
    ELSE IF n \in {"ipc", "cpi"} THEN {<<>>, <<0>>}
    ELSE IF n = "committedInsts" /\ s = "simple_smt_test.py"
    THEN ThreadVectors(t)
    ELSE Scalars

RECURSIVE StatsOver(_, _, _)
\* Every combination of values of the counters of names, the others
\* absent.
StatsOver(s, t, names) ==
    IF names = {} THEN {NoStats}
    ELSE LET n == CHOOSE x \in names : TRUE
         IN  {[st EXCEPT ![n] = v] :
                 st \in StatsOver(s, t, names \ {n}),
                 v \in CounterValues(s, t, n)}

\* What the counters may hold after a simulation of script s.
StatsAfter(s, t) == StatsOver(s, t, CountersRead(s))

\* end_tick - start_tick of branch_prediction.py, in ticks.
TickValues == {0, 500, 1000}

\* hasattr(obj, name)
Present(st, n) == st[n] # <<>>

\* The names of cands that are absent (the accesses that raise
\* AttributeError).
Missing(st, cands) == {n \in cands : ~Present(st, n)}

RECURSIVE ResolveLast(_, _)
\* The last candidate present wins (mutant of Resolve).
ResolveLast(st, names) ==
    IF names = <<>> THEN 0
    ELSE IF Present(st, names[Len(names)]) THEN st[names[Len(names)]][1]
    ELSE ResolveLast(st, SubSeq(names, 1, Len(names) - 1))

RECURSIVE Resolve(_, _)
\* The nested try/except AttributeError of superscalar_simple.py lines
\* 191-207 and the hasattr chain of branch_prediction.py lines 184-197:
\* the value of the first candidate present, 0 when none is.
Resolve(st, names) ==
    IF names = <<>> THEN 0
    ELSE IF Present(st, Head(names)) THEN st[Head(names)][1]
    ELSE Resolve(st, Tail(names))

\* A quotient n/d that Python computes in floating point is kept as the
\* pair <<n, d>>; a value that is not printed is <<>>.
Ratio(n, d) == <<n, d>>

\* (correct / lookups) * 100 if lookups > 0 else 0
Accuracy(correct, lookups) ==
    IF lookups > 0 THEN Ratio(correct * 100, lookups) ELSE Ratio(0, 1)

NoRunReport ==
    [cycles |-> <<>>, instructions |-> <<>>, ipc |-> <<>>, cpi |-> <<>>,
     predictions |-> <<>>, correct |-> <<>>, mispredicts |-> <<>>,
     accuracy |-> <<>>, notes |-> {}, raised |-> {}]

\* if cycles > 0 and instructions > 0: ipc = ...; cpi = ... else a note
\* (superscalar_simple.py lines 210-216, simple_smt_test.py lines 180-186)
WithIpcCpi(rep, cycles, instructions) ==
    IF cycles > 0 /\ instructions > 0
    THEN [rep EXCEPT !.ipc = Ratio(instructions, cycles),
                     !.cpi = Ratio(cycles, instructions)]
    ELSE [rep EXCEPT !.notes = @ \cup {"Cannot calculate IPC/CPI"}]

RECURSIVE SumSeq(_)
SumSeq(s) == IF s = <<>> THEN 0 ELSE Head(s) + SumSeq(Tail(s))

\* simple_smt_test.py lines 168-175: the sum of committedInsts[i] over the
\* threads 0..threads-1 that the vector has.
TotalInstructions(st, threads) ==
    LET v == st["committedInsts"]
        n == IF threads < Len(v) THEN threads ELSE Len(v)
    IN  IF n <= 0 THEN 0 ELSE SumSeq(SubSeq(v, 1, n))

\* The notes of lines 190-215 of simple_smt_test.py.
UtilizationNotes ==
    {"Could not access ROB utilization",
     "Could not access issue queue utilization",
     "Could not access LQ/SQ utilization"}

\* ------------------------------------------------------------ the run

InitRunVars ==
    /\ script \in Scripts
    /\ run_pc = "start"
    /\ cli = NoCli
    /\ cpu = NoCpu
    /\ branchPred = DefaultPred
    /\ sim_calls = 0
    /\ stats = NoStats
    /\ elapsed = 0
    /\ report = NoRunReport
    /\ exit_status = <<>>
    /\ system = NoSystem
    /\ smoke_tests = 0

\* The process ends with status n.
Exit(n) ==
    /\ run_pc' = "exited"
    /\ exit_status' = <<n>>

\* parser.parse_args(): a predictor name outside choices is rejected with
\* status 2; every integer is accepted for --width and --threads.
ParseArgs ==
    /\ run_pc = "start"
    /\ script \in CliScripts
    /\ \E w \in ArgWidths(script), t \in ArgThreads(script),
          b \in BpInputs, d \in BOOLEAN :
          /\ d => script = "superscalar_pipeline.py"
          /\ IF b \in BpChoices(script)
             THEN /\ cli' = [width |-> w, threads |-> t, bp_type |-> b,
                             debug |-> d]
                  /\ run_pc' = "parsed"
                  /\ UNCHANGED exit_status
             ELSE /\ Exit(2)
                  /\ UNCHANGED cli
    /\ UNCHANGED <<script, system, smoke_tests, cpu, branchPred, sim_calls,
                   stats, elapsed, report>>

\* What an exception no handler of its own catches leaves on the output:
\* 'CRITICAL ERROR' from log_exception in superscalar_pipeline.py (lines
\* 15-20, 445-446), the interpreter's traceback in the other scripts.
Fatal(rep) ==
    [rep EXCEPT !.notes = @ \cup
        {IF script = "superscalar_pipeline.py" THEN "CRITICAL ERROR"
         ELSE "Traceback"}]

\* A message printed before the script goes on or exits.
Printed(rep, note) == [rep EXCEPT !.notes = @ \cup {note}]

\* simple_smt_test.py lines 20-142: the system is built from the command
\* line as it is; a negative thread count or width is refused by m5 when
\* it is assigned and the script ends with the traceback.
ConfigureSmt ==
    /\ run_pc = "parsed"
    /\ script = "simple_smt_test.py"
    /\ IF ParamAccepted(cli.threads) /\ ParamAccepted(cli.width)
       THEN /\ cpu' = SmtCpu(cli.width, cli.threads)
            /\ branchPred' = SmtBranchPred(cli.bp_type)
            /\ system' = CrossbarSystem
            /\ run_pc' = "configured"
            /\ UNCHANGED exit_status
       ELSE /\ Exit(1)
            /\ UNCHANGED <<cpu, branchPred, system>>
    /\ UNCHANGED <<script, smoke_tests, cli, sim_calls, stats, elapsed,
                   report>>

\* superscalar_simple.py lines 81-168: main() builds the system around
\* create_superscalar_cpu(width=args.width, bp_type=args.bp_type).
ConfigureSimple ==
    /\ run_pc = "parsed"
    /\ script = "superscalar_simple.py"
    /\ IF ParamAccepted(cli.width)
       THEN /\ cpu' = SimpleCpu(cli.width)
            /\ branchPred' = SimpleBranchPred(cli.bp_type)
            /\ system' = CrossbarSystem
            /\ run_pc' = "configured"
            /\ UNCHANGED exit_status
       ELSE /\ Exit(1)
            /\ UNCHANGED <<cpu, branchPred, system>>
    /\ UNCHANGED <<script, smoke_tests, cli, sim_calls, stats, elapsed,
                   report>>

\* create_superscalar_cpu called by an importing module, with any width
\* and any predictor name.
CallCreateSuperscalarCpu ==
    /\ run_pc = "start"
    /\ script = "create_superscalar_cpu"
    /\ \E w \in ArgWidths(script), b \in BpInputs :
          /\ cli' = [width |-> w, threads |-> 0, bp_type |-> b,
                     debug |-> FALSE]
          /\ IF ParamAccepted(w)
             THEN /\ cpu' = SimpleCpu(w)
                  /\ branchPred' = SimpleBranchPred(b)
                  /\ run_pc' = "returned"
             ELSE /\ run_pc' = "raised"
                  /\ UNCHANGED <<cpu, branchPred>>
    /\ UNCHANGED <<script, system, smoke_tests, sim_calls, stats, elapsed,
                   report, exit_status>>

\* superscalar_pipeline.py lines 44-136: the CPU and its predictor.
ConfigurePipeline ==
    /\ run_pc = "parsed"
    /\ script = "superscalar_pipeline.py"
    /\ cpu' = PipelineCpu
    /\ branchPred' = configure_branch_predictor(cli.bp_type)
    /\ run_pc' = "configured"
    /\ UNCHANGED <<script, system, smoke_tests, cli, sim_calls, stats,
                   elapsed, report, exit_status>>

\* superscalar_pipeline.py lines 138-248: with --debug the imports of
\* lines 140-143, which may fail and then end the script through the
\* handler of lines 445-447; then the caches and their links.
WirePipeline ==
    /\ run_pc = "configured"
    /\ script = "superscalar_pipeline.py"
    /\ \E imported \in BOOLEAN :
          IF imported \/ ~cli.debug
          THEN /\ system' = PipelineSystem
               /\ run_pc' = "wired"
               /\ UNCHANGED <<report, exit_status>>
          ELSE /\ report' = Fatal(report)
               /\ Exit(1)
               /\ UNCHANGED system
    /\ UNCHANGED <<script, smoke_tests, cli, cpu, branchPred, sim_calls,
                   stats, elapsed>>

\* What compile_benchmark may meet: no source file, gcc returning
\* non-zero, subprocess.run raising, or success.
CompileOutcomes == {"compiled", "no_source", "gcc_failed", "gcc_raised"}

\* compile_benchmark lines 162, 174, 182: the message of each failure.
CompileMessage(outcome) ==
    IF outcome = "no_source"
    THEN "Error: Benchmark source file not found"
    ELSE IF outcome = "gcc_failed" THEN "Compilation Error:"
    ELSE "Error compiling benchmark"

\* superscalar_pipeline.py lines 250-254 with compile_benchmark, lines
\* 153-183: every failure prints its message and calls sys.exit(1).
CompileBenchmark ==
    /\ run_pc = "wired"
    /\ script = "superscalar_pipeline.py"
    /\ \E outcome \in CompileOutcomes :
          IF outcome = "compiled"
          THEN /\ run_pc' = "compiled"
               /\ UNCHANGED <<report, exit_status>>
          ELSE /\ report' = Printed(report, CompileMessage(outcome))
               /\ Exit(1)
    /\ UNCHANGED <<script, system, smoke_tests, cli, cpu, branchPred,
                   sim_calls, stats, elapsed>>

\* A failed chmod is printed and the script goes on (mutant of
\* MakeExecutable).
MakeExecutableLenient ==
    /\ run_pc = "compiled"
    /\ script = "superscalar_pipeline.py"
    /\ \E outcome \in {"executable", "chmod_done", "chmod_failed"} :
          /\ run_pc' = "executable"
          /\ report' = IF outcome = "chmod_failed"
                       THEN Printed(report,
                                    "Failed to make benchmark executable")
                       ELSE report
    /\ UNCHANGED <<script, system, smoke_tests, cli, cpu, branchPred,
                   sim_calls, stats, elapsed, exit_status>>

\* superscalar_pipeline.py lines 256-271: a benchmark that is not
\* executable gets chmod 0o755; a chmod that raises ends the script with
\* status 1.
MakeExecutable ==
    /\ run_pc = "compiled"
    /\ script = "superscalar_pipeline.py"
    /\ \E outcome \in {"executable", "chmod_done", "chmod_failed"} :
          IF outcome = "chmod_failed"
          THEN /\ report' = Printed(report,
                                    "Failed to make benchmark executable")
               /\ Exit(1)
          ELSE /\ run_pc' = "executable"
               /\ UNCHANGED <<report, exit_status>>
    /\ UNCHANGED <<script, system, smoke_tests, cli, cpu, branchPred,
                   sim_calls, stats, elapsed>>

\* What the direct run of the benchmark may do within timeout=10.
SmokeOutcomes == {"returned", "timed_out", "raised"}

\* Lines 292-298: what is printed for each outcome.
SmokeMessage(outcome) ==
    IF outcome = "returned" THEN "Return Code:"
    ELSE IF outcome = "timed_out" THEN "Process timed out"
    ELSE "Process execution failed"

\* A direct run that times out is run again (mutant of SmokeTest).
SmokeTestRetrying ==
    /\ run_pc = "executable"
    /\ script = "superscalar_pipeline.py"
    /\ \E outcome \in SmokeOutcomes :
          /\ report' = Printed(report, SmokeMessage(outcome))
          /\ run_pc' = IF outcome = "timed_out" THEN "executable"
                       ELSE "prepared"
    /\ smoke_tests' = smoke_tests + 1
    /\ UNCHANGED <<script, system, cli, cpu, branchPred, sim_calls, stats,
                   elapsed, exit_status>>

\* superscalar_pipeline.py lines 273-298: the process is described and the
\* benchmark is run once, directly, with timeout=10; a timeout and any
\* other exception are printed and the script goes on.
SmokeTest ==
    /\ run_pc = "executable"
    /\ script = "superscalar_pipeline.py"
    /\ \E outcome \in SmokeOutcomes :
          report' = Printed(report, SmokeMessage(outcome))
    /\ smoke_tests' = smoke_tests + 1
    /\ run_pc' = "prepared"
    /\ UNCHANGED <<script, system, cli, cpu, branchPred, sim_calls, stats,
                   elapsed, exit_status>>

\* branch_prediction.py lines 29-154: create_system(args.bp_type).
ConfigureBranch ==
    /\ run_pc = "parsed"
    /\ script = "branch_prediction.py"
    /\ cpu' = BranchCpu
    /\ branchPred' = BranchBranchPred(cli.bp_type)
    /\ system' = BranchSystem
    /\ run_pc' = "prepared"
    /\ UNCHANGED <<script, smoke_tests, cli, sim_calls, stats, elapsed,
                   report, exit_status>>

\* simple_pipeline.py lines 45-93: createSimplePipeline and the workload.
\* The script sets no system.mem_ranges: whether line 65 finds a range 0
\* is left to m5; when it does not, the IndexError ends the script.
ConfigureSimplePipeline ==
    /\ run_pc = "start"
    /\ script = "simple_pipeline.py"
    /\ cpu' = SimplePipelineCpu
    /\ \E range \in BOOLEAN :
          IF range
          THEN /\ system' = SimplePipelineSystem
               /\ run_pc' = "prepared"
               /\ UNCHANGED <<report, exit_status>>
          ELSE /\ system' = System(SimplePipelineSystem.objects,
                                   SimplePipelineSystem.links
                                       \ {<<"membus", "mem_ctrl">>})
               /\ report' = Fatal([report EXCEPT
                                       !.raised = @ \cup {"IndexError"}])
               /\ Exit(1)
    /\ UNCHANGED <<script, smoke_tests, cli, branchPred, sim_calls, stats,
                   elapsed>>

\* The scripts that go from the configuration to m5.instantiate() with
\* nothing in between that can fail.
FinishConfiguration ==
    /\ run_pc = "configured"
    /\ script \in {"simple_smt_test.py", "superscalar_simple.py"}
    /\ run_pc' = "prepared"
    /\ UNCHANGED <<script, system, smoke_tests, cli, cpu, branchPred,
                   sim_calls, stats, elapsed, report, exit_status>>

\* m5.instantiate(), in superscalar_pipeline.py with lines 300-311: the
\* simulator builds the system or refuses it; a refusal ends the script
\* with status 1.
Instantiate ==
    /\ run_pc = "prepared"
    /\ \E ok \in BOOLEAN :
          IF ok THEN /\ run_pc' = "instantiated"
                     /\ UNCHANGED <<report, exit_status>>
          ELSE /\ report' = Fatal(report)
               /\ Exit(1)
    /\ UNCHANGED <<script, system, smoke_tests, cli, cpu, branchPred,
                   sim_calls, stats, elapsed>>

\* superscalar_pipeline.py lines 313-359: the configuration is logged and
\* a workload without executable ends the script with status 1.
CheckWorkload ==
    /\ run_pc = "instantiated"
    /\ script = "superscalar_pipeline.py"
    /\ \E executable \in BOOLEAN :
          IF executable
          THEN /\ run_pc' = "checked"
               /\ UNCHANGED <<report, exit_status>>
          ELSE /\ report' = Printed(report,
                               "CRITICAL ERROR: No workload executable set!")
               /\ Exit(1)
    /\ UNCHANGED <<script, system, smoke_tests, cli, cpu, branchPred,
                   sim_calls, stats, elapsed>>

\* Where a script stands when its next statement is m5.simulate().
ReadyToSimulate ==
    run_pc = IF script = "superscalar_pipeline.py" THEN "checked"
             ELSE "instantiated"

\* m5.simulate() returns: the counters hold what the simulator left. The
\* call takes no timeout and nothing cancels it.
Simulate ==
    /\ ReadyToSimulate
    /\ sim_calls' = sim_calls + 1
    /\ stats' \in StatsAfter(script, cli.threads)
    /\ elapsed' \in IF script = "branch_prediction.py" THEN TickValues ELSE {0}
    /\ run_pc' = "simulated"
    /\ UNCHANGED <<script, system, smoke_tests, cli, cpu, branchPred, report,
                   exit_status>>

\* m5.simulate() raises and the call is made again (mutant of
\* SimulateRaises).
SimulateRaisesRetrying ==
    /\ ReadyToSimulate
    /\ sim_calls' = sim_calls + 1
    /\ report' = Fatal([report EXCEPT !.raised = @ \cup {"SimulatorError"}])
    /\ UNCHANGED <<script, run_pc, system, smoke_tests, cli, cpu, branchPred,
                   stats, elapsed, exit_status>>

\* m5.simulate() raises: no script handles it (enhanced_simulate of
\* superscalar_pipeline.py logs it and raises it again, lines 377-379, and
\* the handler of lines 445-447 logs it and exits with status 1).
SimulateRaises ==
    /\ ReadyToSimulate
    /\ sim_calls' = sim_calls + 1
    /\ report' = Fatal([report EXCEPT !.raised = @ \cup {"SimulatorError"}])
    /\ Exit(1)
    /\ UNCHANGED <<script, system, smoke_tests, cli, cpu, branchPred, stats,
                   elapsed>>

\* simple_pipeline.py lines 101-102: the exit cause is printed and the
\* script ends.
SimplePipelineEnd ==
    /\ run_pc = "simulated"
    /\ script = "simple_pipeline.py"
    /\ Exit(0)
    /\ UNCHANGED <<script, system, smoke_tests, cli, cpu, branchPred,
                   sim_calls, stats, elapsed, report>>

\* --------------------------------------------- reading the statistics

\* The report after the AttributeError of every absent counter of cands
\* was raised and handled with its note.
Noted(rep, st, cands, note) ==
    IF Missing(st, cands) = {} THEN rep
    ELSE [rep EXCEPT !.notes = @ \cup {note},
                     !.raised = @ \cup {"AttributeError"}]

\* superscalar_simple.py lines 190-216: cycles, instructions, IPC and CPI.
SimpleCpuStats ==
    /\ run_pc = "simulated"
    /\ script = "superscalar_simple.py"
    /\ LET cycles == Resolve(stats, <<"numCycles">>)
           instructions == Resolve(stats, <<"committedInsts", "numInsts">>)
           r1 == Noted(report, stats, {"numCycles"},
                       "Could not access numCycles")
           r2 == IF Present(stats, "committedInsts") THEN r1
                 ELSE Noted([r1 EXCEPT !.raised = @ \cup {"AttributeError"}],
                            stats, {"numInsts"},
                            "Could not access instruction count")
           r3 == [r2 EXCEPT !.cycles = Ratio(cycles, 1),
                            !.instructions = <<instructions>>]
       IN  report' = WithIpcCpi(r3, cycles, instructions)
    /\ run_pc' = "branch_stats"
    /\ UNCHANGED <<script, system, smoke_tests, cli, cpu, branchPred,
                   sim_calls, stats, elapsed, exit_status>>

\* superscalar_simple.py lines 218-245: the predictor statistics, then the
\* listing of the configuration; main() returns and the status is 0.
\* hasattr(system.cpu, 'branchPred') holds for every MinorCPU.
SimpleBranchStats ==
    /\ run_pc = "branch_stats"
    /\ script = "superscalar_simple.py"
    /\ IF Missing(stats, {"lookups", "incorrect"}) # {}
       THEN report' = Noted(report, stats, {"lookups", "incorrect"},
                            "Error accessing branch predictor statistics")
       ELSE LET lookups == stats["lookups"][1]
                incorrect == stats["incorrect"][1]
                correct == lookups - incorrect
            IN  report' = [report EXCEPT
                              !.predictions = <<lookups>>,
                              !.correct = <<correct>>,
                              !.mispredicts = <<incorrect>>,
                              !.accuracy = Accuracy(correct, lookups)]
    /\ Exit(0)
    /\ UNCHANGED <<script, system, smoke_tests, cli, cpu, branchPred,
                   sim_calls, stats, elapsed>>

\* simple_smt_test.py lines 152-215: cycles, the instructions of every
\* thread, IPC and CPI, and the utilization section, of which any counter
\* may be absent; the script ends with status 0.
SmtStats ==
    /\ run_pc = "simulated"
    /\ script = "simple_smt_test.py"
    /\ \E util \in SUBSET UtilizationNotes :
          LET cycles == Resolve(stats, <<"numCycles">>)
              total == TotalInstructions(stats, cli.threads)
              r1 == Noted(report, stats, {"numCycles"},
                          "Could not access numCycles")
              r2 == IF Len(stats["committedInsts"]) >= cli.threads THEN r1
                    ELSE [r1 EXCEPT
                            !.notes = @ \cup
                                {"Could not access instructions for thread"},
                            !.raised = @ \cup {"IndexError"}]
              r3 == [r2 EXCEPT !.cycles = Ratio(cycles, 1),
                               !.instructions = <<total>>,
                               !.notes = @ \cup util,
                               !.raised = @ \cup
                                   IF util = {} THEN {}
                                   ELSE {"AttributeError"}]
          IN  report' = WithIpcCpi(r3, cycles, total)
    /\ Exit(0)
    /\ UNCHANGED <<script, system, smoke_tests, cli, cpu, branchPred,
                   sim_calls, stats, elapsed>>

\* branch_prediction.py lines 165-213: everything after the simulation.
\* The division of line 200 is guarded by instructions > 0 only: with no
\* elapsed tick it raises ZeroDivisionError, which line 209 handles.
BranchStats ==
    /\ run_pc = "simulated"
    /\ script = "branch_prediction.py"
    /\ LET mispredicts == Resolve(stats, <<"lookupIncorrect">>)
           correct_predictions == Resolve(stats, <<"lookupCorrect">>)
           total_predictions ==
               IF correct_predictions > 0
               THEN mispredicts + correct_predictions ELSE 1
           instructions == Resolve(stats, <<"numInsts", "committedInsts">>)
           r1 == [report EXCEPT !.cycles = Ratio(elapsed, 1000)]
           r2 == IF cli.bp_type = "none" THEN r1
                 ELSE [r1 EXCEPT
                         !.predictions = <<total_predictions>>,
                         !.correct = <<correct_predictions>>,
                         !.mispredicts = <<mispredicts>>,
                         !.accuracy =
                             Accuracy(correct_predictions, total_predictions)]
       IN  report' =
             IF instructions > 0
             THEN IF elapsed = 0
                  THEN [r2 EXCEPT
                          !.notes = @ \cup {"Error accessing statistics"},
                          !.raised = @ \cup {"ZeroDivisionError"}]
                  ELSE [r2 EXCEPT
                          !.instructions = <<instructions>>,
                          !.ipc = Ratio(instructions * 1000, elapsed),
                          !.cpi = Ratio(elapsed, instructions * 1000)]
             ELSE [r2 EXCEPT !.notes = @ \cup
                      {"Couldn't determine instruction count directly."}]
    /\ Exit(0)
    /\ UNCHANGED <<script, system, smoke_tests, cli, cpu, branchPred,
                   sim_calls, stats, elapsed>>

\* superscalar_pipeline.py lines 384-399: the guarded print of the
\* instructions and the cycles; the first absent counter ends the block
\* with a note.
PipelineCpuStats ==
    /\ run_pc = "simulated"
    /\ script = "superscalar_pipeline.py"
    /\ LET r1 == IF Present(stats, "numInsts")
                 THEN [report EXCEPT !.instructions = stats["numInsts"]]
                 ELSE report
           r2 == IF Present(stats, "numInsts") /\ Present(stats, "numCycles")
                 THEN [r1 EXCEPT !.cycles = Ratio(stats["numCycles"][1], 1)]
                 ELSE r1
       IN  report' = IF Missing(stats, {"numInsts", "numCycles"}) = {} THEN r2
                     ELSE [r2 EXCEPT
                             !.notes = @ \cup
                                 {"Could not retrieve CPU statistics"},
                             !.raised = @ \cup {"AttributeError"}]
    /\ run_pc' = "performance"
    /\ UNCHANGED <<script, system, smoke_tests, cli, cpu, branchPred,
                   sim_calls, stats, elapsed, exit_status>>

\* superscalar_pipeline.py lines 401-416: the four counters, and with
\* --debug six more, are printed outside any try of their own: an absent
\* one raises into the handler of lines 445-447, which exits with 1.
PipelinePerformance ==
    /\ run_pc = "performance"
    /\ script = "superscalar_pipeline.py"
    /\ \E details \in BOOLEAN :
          IF /\ Missing(stats, {"numInsts", "numCycles", "ipc", "cpi"}) = {}
             /\ (cli.debug => details)
          THEN /\ run_pc' = "branch_stats"
               /\ UNCHANGED <<report, exit_status>>
          ELSE /\ report' = [report EXCEPT
                                !.notes = @ \cup {"CRITICAL ERROR"},
                                !.raised = @ \cup {"AttributeError"}]
               /\ Exit(1)
    /\ UNCHANGED <<script, system, smoke_tests, cli, cpu, branchPred,
                   sim_calls, stats, elapsed>>

\* superscalar_pipeline.py lines 419-443: print_branch_prediction_stats;
\* the accuracy is printed only when numBranches > 0. The script ends
\* with status 0.
PipelineBranchStats ==
    /\ run_pc = "branch_stats"
    /\ script = "superscalar_pipeline.py"
    /\ LET r1 == IF Present(stats, "numBranches")
                 THEN [report EXCEPT !.predictions = stats["numBranches"]]
                 ELSE report
       IN  IF Missing(stats, {"numBranches", "branchMispredicts"}) # {}
           THEN report' = [r1 EXCEPT
                             !.notes = @ \cup
                                 {"Error retrieving branch prediction stats"},
                             !.raised = @ \cup {"AttributeError"}]
           ELSE LET n == stats["numBranches"][1]
                    m == stats["branchMispredicts"][1]
                IN  report' = [r1 EXCEPT
                                 !.mispredicts = <<m>>,
                                 !.accuracy =
                                     IF n > 0 THEN Ratio((n - m) * 100, n)
                                     ELSE <<>>]
    /\ Exit(0)
    /\ UNCHANGED <<script, system, smoke_tests, cli, cpu, branchPred,
                   sim_calls, stats, elapsed>>

\* ======================================================================
\* specifications
\* ======================================================================

vars == <<sweepVars, traceVars, runVars>>

\* No configuration script is running.
IdleRun ==
    /\ script = "none"
    /\ run_pc = "idle"
    /\ cli = NoCli
    /\ cpu = NoCpu
    /\ branchPred = DefaultPred
    /\ sim_calls = 0
    /\ stats = NoStats
    /\ elapsed = 0
    /\ report = NoRunReport
    /\ exit_status = <<>>
    /\ system = NoSystem
    /\ smoke_tests = 0

\* The sweep script alone: the viewer is not running.
InitSweep == InitSweepVars /\ InitTraceVars /\ IdleRun

NextSweep ==
    \/ WriteHeader /\ UNCHANGED <<traceVars, runVars>>
    \/ LaunchSimulation /\ UNCHANGED <<traceVars, runVars>>
    \/ RunRaises /\ UNCHANGED <<traceVars, runVars>>
    \/ ChildExits /\ UNCHANGED <<traceVars, runVars>>
    \/ RunReturns /\ UNCHANGED <<traceVars, runVars>>
    \/ AppendRow /\ UNCHANGED <<traceVars, runVars>>
    \/ WriteDetail /\ UNCHANGED <<traceVars, runVars>>
    \/ GenerateSummary /\ UNCHANGED <<traceVars, runVars>>

SpecSweep == InitSweep /\ [][NextSweep]_vars

\* The viewer alone: no sweep is running.
IdleSweep ==
    /\ WIDTHS = <<>>
    /\ BP_TYPES = <<>>
    /\ sweep_pc = "idle"
    /\ cell = 1
    /\ children = {}
    /\ process = NoProcess
    /\ wall_time = 0
    /\ csv_file = <<>>
    /\ detail_files = [n \in DetailNames |-> Absent]
    /\ report_file = NoReport

InitTrace == InitTraceVars /\ IdleSweep /\ IdleRun

NextTrace ==
    \/ ReadLine /\ UNCHANGED <<sweepVars, runVars>>
    \/ ParseReturns /\ UNCHANGED <<sweepVars, runVars>>
    \/ ShowActive /\ UNCHANGED <<sweepVars, runVars>>
    \/ Visualize /\ UNCHANGED <<sweepVars, runVars>>

SpecTrace == InitTrace /\ [][NextTrace]_vars

\* One run of one configuration script: neither the sweep nor the viewer
\* is running.
InitRun == InitRunVars /\ IdleSweep /\ InitTraceVars

NextRun ==
    \/ ParseArgs /\ UNCHANGED <<sweepVars, traceVars>>
    \/ ConfigureSmt /\ UNCHANGED <<sweepVars, traceVars>>
    \/ ConfigureSimple /\ UNCHANGED <<sweepVars, traceVars>>
    \/ CallCreateSuperscalarCpu /\ UNCHANGED <<sweepVars, traceVars>>
    \/ ConfigurePipeline /\ UNCHANGED <<sweepVars, traceVars>>
    \/ WirePipeline /\ UNCHANGED <<sweepVars, traceVars>>
    \/ CompileBenchmark /\ UNCHANGED <<sweepVars, traceVars>>
    \/ MakeExecutable /\ UNCHANGED <<sweepVars, traceVars>>
    \/ SmokeTest /\ UNCHANGED <<sweepVars, traceVars>>
    \/ ConfigureSimplePipeline /\ UNCHANGED <<sweepVars, traceVars>>
    \/ CheckWorkload /\ UNCHANGED <<sweepVars, traceVars>>
    \/ SimplePipelineEnd /\ UNCHANGED <<sweepVars, traceVars>>
    \/ ConfigureBranch /\ UNCHANGED <<sweepVars, traceVars>>
    \/ FinishConfiguration /\ UNCHANGED <<sweepVars, traceVars>>
    \/ Instantiate /\ UNCHANGED <<sweepVars, traceVars>>
    \/ Simulate /\ UNCHANGED <<sweepVars, traceVars>>
    \/ SimulateRaises /\ UNCHANGED <<sweepVars, traceVars>>
    \/ SimpleCpuStats /\ UNCHANGED <<sweepVars, traceVars>>
    \/ SimpleBranchStats /\ UNCHANGED <<sweepVars, traceVars>>
    \/ SmtStats /\ UNCHANGED <<sweepVars, traceVars>>
    \/ BranchStats /\ UNCHANGED <<sweepVars, traceVars>>
    \/ PipelineCpuStats /\ UNCHANGED <<sweepVars, traceVars>>
    \/ PipelinePerformance /\ UNCHANGED <<sweepVars, traceVars>>
    \/ PipelineBranchStats /\ UNCHANGED <<sweepVars, traceVars>>

SpecRun == InitRun /\ [][NextRun]_vars


\* ======================================================================
\* properties of the sweep (compare_widths.py), checked under SpecSweep
\* ======================================================================

NumWidths == Len(WIDTHS)
NumTypes == Len(BP_TYPES)

\* The k-th pair of the cross product, widths outermost.
CrossWidth(k) == WIDTHS[((k - 1) \div NumTypes) + 1]
CrossType(k) == BP_TYPES[((k - 1) % NumTypes) + 1]

\* The data rows of the CSV file (everything after the header).
DataRows == Tail(csv_file)

\* C1: once the header is written, the data rows are at every moment the
\* first rows of the cross product widths x predictor types, widths
\* outermost, one row per cell; when the sweep has finished they are the
\* whole cross product.
C1_RowsAreCrossProductInOrder ==
    sweep_pc # "start" =>
        /\ Len(DataRows) <= NumWidths * NumTypes
        /\ \A k \in 1..Len(DataRows) :
              /\ DataRows[k][1] = Str(CrossWidth(k))
              /\ DataRows[k][2] = <<CrossType(k)>>
        /\ sweep_pc = "done" => Len(DataRows) = NumWidths * NumTypes

C1_Witness ==
    /\ sweep_pc = "done"
    /\ NumWidths = 2 /\ NumTypes = 2
    /\ WIDTHS[1] # WIDTHS[2] /\ BP_TYPES[1] # BP_TYPES[2]
    /\ Len(csv_file) = 5

\* C2: no failure of one cell's simulator invocation (a non-zero exit, or an
\* exception raised by the invocation) halts the sweep: the script never
\* ends before every cell has its row, and a failed child's row carries its
\* stderr text.
C2_CellFailureNeverHaltsSweep ==
    /\ sweep_pc # "crashed"
    /\ sweep_pc = "done" => Len(DataRows) = NumWidths * NumTypes
    /\ sweep_pc = "save_detail" /\ process.returncode # 0 =>
          csv_file[Len(csv_file)][4] = process.stdout \o process.stderr

\* C3: at most one simulator child runs at any time, it is the child of the
\* current cell, and while it runs every earlier cell has its CSV row and
\* its detail file; every row is appended by the one step that follows the
\* child's exit.
C3_CellsNeverOverlap ==
    /\ Cardinality(children) <= 1
    /\ children # {} =>
          /\ children = {cell}
          /\ sweep_pc = "run"
    /\ sweep_pc = "run" =>
          /\ Len(DataRows) = cell - 1
          /\ \A k \in 1..(cell - 1) :
                detail_files[<<CrossWidth(k), CrossType(k)>>] # Absent
    /\ sweep_pc = "save_csv" => Len(DataRows) = cell - 1
    /\ sweep_pc = "save_detail" => Len(DataRows) = cell

C3_Witness ==
    /\ sweep_pc = "run"
    /\ cell = 2
    /\ children = {2}
    /\ Len(csv_file) = 2

C4_Header == << <<"Width">>, <<"Branch Predictor">>, <<"Wall Time">>, <<"Output">> >>

C4_State ==
    sweep_pc # "start" =>
        /\ csv_file[1] = C4_Header
        /\ sweep_pc \in {"loop", "done"} =>
              Len(csv_file) = 1 + (IF sweep_pc = "done" THEN NumWidths * NumTypes
                                   ELSE cell - 1)

C4_Step ==
    /\ sweep_pc = "start" => csv_file' = <<C4_Header>>
    /\ sweep_pc # "start" =>
          /\ Len(csv_file') >= Len(csv_file)
          /\ SubSeq(csv_file', 1, Len(csv_file)) = csv_file
          /\ Len(csv_file') = Len(csv_file) + (IF sweep_pc = "save_csv" THEN 1 ELSE 0)

\* C4: the header is written first; after k cells have completed the file
\* is the header followed by k data rows; every step keeps the header and
\* the rows already there, only a cell's append adds a row (exactly one),
\* and summary generation changes nothing.
C4_CsvWrittenIncrementally == [](C4_State) /\ [][C4_Step]_vars

C4_Witness ==
    /\ sweep_pc = "done"
    /\ report_file.written
    /\ Len(csv_file) = 4

\* C5: the summary is written only after every cell has completed; its
\* table has one line per swept width, its column headings are the swept
\* predictor types, and each line has one wall time per swept type, the one
\* recorded in the CSV row of that cell.
C5_SummaryMatchesSweep ==
    (report_file.written /\ NumWidths > 0 /\ NumTypes > 0) =>
        /\ Len(DataRows) = NumWidths * NumTypes
        /\ report_file.heading = << <<"Width">> >> \o [j \in 1..NumTypes |-> <<BP_TYPES[j]>>]
        /\ Len(report_file.rows) = NumWidths
        /\ \A i \in 1..NumWidths :
              /\ Len(report_file.rows[i]) = 1 + NumTypes
              /\ report_file.rows[i][1] = Str(WIDTHS[i])
              /\ \A j \in 1..NumTypes :
                    report_file.rows[i][1 + j] =
                        Fmt2(ParseInt(DataRows[(i - 1) * NumTypes + j][3]))

\* ======================================================================
\* properties of the viewer (pipeline_view.py), checked under SpecTrace
\* ======================================================================

\* The cycle a prefix of LineSrcs denotes.
CycleDenoted(pre) ==
    CASE pre = <<"7">> -> 7
      [] pre = <<"8">> -> 8
      [] pre = <<" ", "8">> -> 8

C6_Step ==
    (trace_pc = "parse" /\ trace_pc' = "parse" /\ nread' = nread + 1) =>
        IF line_src'.act /\ line_src'.stg /\ Len(line_src'.toks) >= 5
        THEN \A k \in 1..5 :
                stages'[StageNames[k]] =
                    Append(stages[StageNames[k]],
                           <<CycleDenoted(line_src'.pre), line_src'.toks[k]>>)
        ELSE stages' = stages

\* C6: a line read without error adds, when it has both markers and at least
\* five comma-separated states after stages=, exactly one entry to each
\* stage: its cycle with the first state on Fetch1, the second on Fetch2,
\* the third on Execute, the fourth on Memory, the fifth on Commit; a line
\* with fewer than five states or without a marker adds nothing.
C6_LineYieldsOneEntryPerStage == [][C6_Step]_vars

C6_Witness ==
    /\ trace_pc = "parse"
    /\ nread = 2
    /\ line_src = WellFormed(<<"7">>, <<tF, tF, tE, tM, tC>>)
    /\ stages["Commit"] = << <<8, tC>>, <<7, tC>> >>

\* C7: no line makes parsing fail: parse_pipeline_trace never raises.
C7_MalformedLineNeverFatal == trace_pc # "error"

\* The cycles at which some stage holds a state other than 'E' and '-'.
NonIdleCycles ==
    {c \in 0..9 :
        \E k \in 1..5 : \E j \in 1..Len(stages[StageNames[k]]) :
            /\ stages[StageNames[k]][j][1] = c
            /\ stages[StageNames[k]][j][2] \notin {<<"E">>, <<"-">>}}

ActiveComputed == trace_pc = "show" \/ (trace_pc = "done" /\ args.show_active)

\* C8: find_active_cycles returns exactly the cycles at which some stage
\* holds an entry whose state is neither 'E' nor '-'; a cycle whose states
\* are all 'E' or '-' is not returned.
C8_ActiveCyclesExact ==
    ActiveComputed =>
        {active_cycles[i] : i \in 1..Len(active_cycles)} = NonIdleCycles

C8_Witness ==
    /\ trace_pc = "show"
    /\ active_cycles = <<7>>
    /\ \E j \in 1..Len(stages["Fetch1"]) : stages["Fetch1"][j] = <<8, tDash>>

\* C9: the result of find_active_cycles is strictly ascending (so without
\* duplicates), is empty when no stage holds a non-idle state, and holds 7
\* as soon as one state recorded at cycle 7 is not idle.
C9_ActiveCyclesAscending ==
    ActiveComputed =>
        /\ \A i \in 1..Len(active_cycles) : \A j \in 1..Len(active_cycles) :
              i < j => active_cycles[i] < active_cycles[j]
        /\ NonIdleCycles = {} => active_cycles = <<>>
        /\ 7 \in NonIdleCycles => \E i \in 1..Len(active_cycles) : active_cycles[i] = 7

C9_Witness ==
    /\ trace_pc = "show"
    /\ active_cycles = <<7, 8>>
    /\ stages["Fetch1"] = << <<8, tE>>, <<7, tF>> >>
    /\ stages["Fetch2"] = << <<8, tDash>>, <<7, tF>> >>

\* The positions of the entries of cycle c in one stage.
EntriesAt(stage_data, c) == {j \in 1..Len(stage_data) : stage_data[j][1] = c}

\* C10: the visualizer prints one data row per cycle of [start, start+n),
\* in ascending order (n rows when n >= 0); each row has the cycle followed
\* by one cell per stage in the order Fetch1, Fetch2, Execute, Memory,
\* Commit, and a cell shows the first state recorded for its stage at that
\* cycle, or the idle marker "-" when none is recorded.
C10_OneRowPerWindowCycle ==
    trace_pc = "done" =>
        /\ Len(grid) = Cardinality(start_cycle..(start_cycle + args.cycles - 1))
        /\ Len(data_rows) = Len(grid)
        /\ \A r \in 1..Len(grid) :
              /\ Len(grid[r]) = 6
              /\ ParseInt(Strip(grid[r][1])) = start_cycle + r - 1
              /\ \A k \in 1..5 :
                    LET data == stages[StageNames[k]]
                        at == EntriesAt(data, start_cycle + r - 1)
                    IN  Strip(grid[r][k + 1]) =
                            IF at = {} THEN <<"-">>
                            ELSE data[CHOOSE j \in at : \A i \in at : j <= i][2]

C10_Witness ==
    /\ trace_pc = "done"
    /\ start_cycle = 7
    /\ args.cycles = 2
    /\ Len(data_rows) = 2
    /\ grid[1][2] = <<" ", " ", "F", " ", " ">>
    /\ grid[2][2] = <<" ", " ", "-", " ", " ">>
    /\ stages["Fetch1"] = << <<7, tF>>, <<7, tE>> >>

\* C11: every stage cell of every printed row has the same fixed width, one
\* blank, three columns and one blank, whatever the length of the state
\* token it shows: tokens longer than three characters included.
C11_CellsHaveFixedWidth ==
    trace_pc = "done" =>
        \A r \in 1..Len(grid) : \A k \in 1..5 : Len(grid[r][k + 1]) = Len(IdleCell)


\* The five timelines have the same length and the same cycle at every
\* position.
C25_State ==
    \A n \in DOMAIN stages :
        /\ Len(stages[n]) = Len(stages["Fetch1"])
        /\ \A i \in 1..Len(stages[n]) : stages[n][i][1] = stages["Fetch1"][i][1]

\* A step either leaves every timeline alone or adds one entry at the end
\* of each: the states are the first five of the line, in stage order.
C25_Step ==
    \/ stages' = stages
    \/ /\ Len(line_src'.toks) >= 5
       /\ \A k \in 1..5 :
             LET old == stages[StageNames[k]]
                 new == stages'[StageNames[k]]
             IN  /\ Len(new) = Len(old) + 1
                 /\ SubSeq(new, 1, Len(old)) = old
                 /\ new[Len(new)][2] = line_src'.toks[k]

\* C25: after any sequence of lines the five stage timelines have the same
\* length and, position by position, the same cycle, in the order of the
\* accepted lines; an accepted line adds exactly five states, one per
\* stage, and its states beyond the fifth are dropped.
C25_TimelinesAligned == []C25_State /\ [][C25_Step]_vars

C25_Witness ==
    /\ trace_pc = "parse"
    /\ line_src = WellFormed(<<"8">>, <<tE, tDash, tLong, tEmpty, tC, tF>>)
    /\ stages["Fetch1"] = << <<7, tF>>, <<8, tE>> >>
    /\ stages["Memory"] = << <<7, tM>>, <<8, tEmpty>> >>
    /\ stages["Commit"] = << <<7, tC>>, <<8, tC>> >>

\* The start the command line gives is kept by --show-active, and the
\* window starts at it; with no start given --show-active sets the first
\* active cycle when there is one, and the window starts at 500 otherwise.
C27_Step ==
    /\ (trace_pc = "main" /\ trace_pc' = "show") =>
          args'.start =
              IF args.start # <<>> THEN args.start
              ELSE IF find_active_cycles(stages) # <<>>
                   THEN <<find_active_cycles(stages)[1]>>
                   ELSE <<>>
    /\ (trace_pc # "done" /\ trace_pc' = "done") =>
          start_cycle' = IF args.start # <<>> THEN args.start[1] ELSE 500

\* C27: the window starts at the --start cycle whenever one is given,
\* --start 0 included, with or without --show-active; only with no start
\* given does it start at the first active cycle (--show-active and some
\* active cycle) or else at cycle 500.
C27_GivenStartIsKept == [][C27_Step]_vars

\* ======================================================================
\* properties of the configuration scripts, checked under SpecRun
\* ======================================================================

\* The script has built its CPU.
Configured == cpu.class # "none"

\* C12: for every width w >= 1 the queue sizes derived by
\* simple_smt_test.py are w times their multiplier: reorder buffer 32 w,
\* load queue 16 w, store queue 16 w, issue queue 16 w, each at least w;
\* and the buffers create_superscalar_cpu derives are at least w too.
C12_QueueSizesScaleWithWidth ==
    (Configured /\ cli.width >= 1) =>
        /\ script = "simple_smt_test.py" =>
              /\ cpu.numROBEntries = 32 * cpu.fetchWidth
              /\ cpu.LQEntries = 16 * cpu.fetchWidth
              /\ cpu.SQEntries = 16 * cpu.fetchWidth
              /\ cpu.numIQEntries = 16 * cpu.fetchWidth
              /\ cpu.fetchWidth = cli.width
              /\ \A q \in {cpu.numROBEntries, cpu.LQEntries, cpu.SQEntries,
                           cpu.numIQEntries} : q >= cli.width
        /\ script \in {"superscalar_simple.py", "create_superscalar_cpu"} =>
              \A q \in {cpu.executeInputBufferSize,
                        cpu.executeLSQRequestsQueueSize,
                        cpu.executeLSQStoreBufferSize,
                        cpu.executeLSQTransfersQueueSize,
                        cpu.executeMaxAccessesInMemory,
                        cpu.fetch2InputBufferSize} : q >= cli.width

C12_Witness ==
    /\ script = "simple_smt_test.py"
    /\ run_pc = "configured"
    /\ cli.width = 2
    /\ cpu.numROBEntries = 64
    /\ cpu.LQEntries = 32
    /\ cpu.SQEntries = 32
    /\ cpu.numIQEntries = 32

\* C13: a width or a thread count of 0 or less is refused with a
\* configuration error: no script builds a CPU from one, and the
\* simulator is never called with one.
C13_NonPositiveWidthRefused ==
    (script \in {"simple_smt_test.py", "superscalar_simple.py"}
        /\ (Configured \/ sim_calls > 0)) =>
        /\ cli.width >= 1
        /\ script = "simple_smt_test.py" => cli.threads >= 1

\* The class each predictor name of a command line stands for.
SelectedClass(b) ==
    IF b \in {"NoBP", "none"} THEN "NULL"
    ELSE IF b = "static" THEN "StaticBP"
    ELSE IF b = "tournament" THEN "TournamentBP"
    ELSE IF b = "bimode" THEN "BiModeBP"
    ELSE b

\* C14: the predictor of a run is of the selected variant: for every
\* predictor name a script accepts on its command line, the CPU it builds
\* has a predictor of that class; no accepted name leaves the CPU with
\* the predictor it was constructed with.
C14_SelectedPredictorConfigured ==
    (script \in CliScripts /\ Configured) =>
        branchPred.class = SelectedClass(cli.bp_type)

\* C15: a predictor name the factory does not know never fails and never
\* leaves the predictor unset: the CPU returned has the predictor the
\* name TournamentBP gives.
C15_UnknownNameGivesTournament ==
    (script = "create_superscalar_cpu" /\ run_pc = "returned"
        /\ cli.bp_type \notin BpChoices("superscalar_simple.py")) =>
        /\ branchPred.class = "TournamentBP"
        /\ branchPred.subs = SimpleBranchPred("TournamentBP").subs

\* C16: the component configure_branch_predictor builds has a local and a
\* global sub-component exactly when it is a tournament predictor: both
\* for TournamentBP, neither for NoBP, StaticBP, LocalBP and BiModeBP.
C16_SubComponentsOnlyForTournament ==
    (script = "superscalar_pipeline.py" /\ Configured) =>
        /\ cli.bp_type = "TournamentBP" =>
              /\ branchPred.class = "TournamentBP"
              /\ {"localPred", "globalPred"} \subseteq branchPred.subs
        /\ cli.bp_type \in {"NoBP", "StaticBP", "LocalBP", "BiModeBP"} =>
              /\ branchPred.class # "TournamentBP"
              /\ branchPred.subs \cap {"localPred", "globalPred"} = {}
        /\ "localPred" \in branchPred.subs <=> "globalPred" \in branchPred.subs

C16_Witness ==
    /\ script = "superscalar_pipeline.py"
    /\ run_pc = "configured"
    /\ cli.bp_type = "TournamentBP"
    /\ branchPred.subs = {"globalPred", "localPred"}

\* The scripts that print a prediction accuracy, and the lookups and the
\* mispredictions their counters hold.
AccuracyScripts ==
    {"superscalar_simple.py", "superscalar_pipeline.py",
     "branch_prediction.py"}

Counter(n) == IF Present(stats, n) THEN stats[n][1] ELSE 0

Lookups ==
    IF script = "superscalar_simple.py" THEN Counter("lookups")
    ELSE IF script = "superscalar_pipeline.py" THEN Counter("numBranches")
    ELSE Counter("lookupIncorrect") + Counter("lookupCorrect")

Mispredicts ==
    IF script = "superscalar_simple.py" THEN Counter("incorrect")
    ELSE IF script = "superscalar_pipeline.py"
    THEN Counter("branchMispredicts")
    ELSE Counter("lookupIncorrect")

\* The predictor section of the run was printed to its end.
AccuracySectionPrinted ==
    /\ script \in AccuracyScripts
    /\ exit_status = <<0>>
    /\ report.mispredicts # <<>>

\* C17: for lookups > 0 and 0 <= mispredicts <= lookups the accuracy
\* reported is (1 - mispredicts / lookups) * 100, a value of [0, 100];
\* for lookups = 0 the accuracy reported is 0.
C17_AccuracyFormula ==
    AccuracySectionPrinted =>
        /\ report.accuracy # <<>>
        /\ (Lookups > 0 /\ Mispredicts <= Lookups) =>
              /\ report.accuracy[1] * Lookups
                    = (Lookups - Mispredicts) * 100 * report.accuracy[2]
              /\ report.accuracy[1] >= 0
              /\ report.accuracy[1] <= 100 * report.accuracy[2]
        /\ Lookups = 0 => report.accuracy[1] = 0

\* C18: computing the metrics never divides by zero, whatever the
\* counters hold: not when cycles = 0 and instructions > 0 either.
C18_NoDivisionByZero == "ZeroDivisionError" \notin report.raised

\* The value of the first counter of names that is present, 0 when none
\* is: stated by position.
FirstPresent(names) ==
    LET at == {i \in 1..Len(names) : Present(stats, names[i])}
    IN  IF at = {} THEN 0
        ELSE stats[names[CHOOSE i \in at : \A j \in at : i <= j]][1]

\* C19: a metric is resolved from its candidate counters in a fixed order
\* of priority: the first one present gives the value, the later ones are
\* ignored, and the value is 0 when none is present. The order is
\* committedInsts, numInsts for the instructions of superscalar_simple.py
\* and numInsts, committedInsts for those of branch_prediction.py.
C19_FirstPresentCandidateWins ==
    /\ (script = "superscalar_simple.py" /\ report.instructions # <<>>) =>
          /\ report.instructions[1]
                = FirstPresent(<<"committedInsts", "numInsts">>)
          /\ report.cycles = Ratio(FirstPresent(<<"numCycles">>), 1)
    /\ (script = "branch_prediction.py" /\ run_pc = "exited"
            /\ exit_status = <<0>>) =>
          LET instructions == FirstPresent(<<"numInsts", "committedInsts">>)
          IN  /\ report.instructions # <<>>
                    => report.instructions[1] = instructions
              /\ (instructions > 0 /\ elapsed > 0)
                    => report.instructions # <<>>
              /\ instructions = 0 =>
                    "Couldn't determine instruction count directly."
                        \in report.notes
              /\ cli.bp_type # "none" =>
                    /\ report.mispredicts
                          = <<FirstPresent(<<"lookupIncorrect">>)>>
                    /\ report.correct
                          = <<FirstPresent(<<"lookupCorrect">>)>>

C19_Witness ==
    /\ script = "superscalar_simple.py"
    /\ run_pc = "branch_stats"
    /\ stats["committedInsts"] = <<1>>
    /\ stats["numInsts"] = <<2>>
    /\ report.instructions = <<1>>

\* C20: an exception raised by the access to a statistics counter after
\* the simulation is caught and reported as a note, and the run ends
\* normally, with status 0: an absent counter never aborts the run.
C20_StatisticsErrorsNeverAbort ==
    (exit_status # <<>> /\ "AttributeError" \in report.raised) =>
        exit_status = <<0>>

\* C26: in the report of branch_prediction.py the number of branch
\* predictions is the correct predictions plus the mispredictions,
\* whatever the two counters hold (correct = 0 with mispredictions > 0
\* included), and the accuracy is correct / (correct + mispredictions) *
\* 100 whenever that sum is positive.
C26_PredictionsAreTheSum ==
    (script = "branch_prediction.py" /\ report.predictions # <<>>) =>
        LET sum == report.correct[1] + report.mispredicts[1]
        IN  /\ report.predictions[1] = sum
            /\ sum > 0 =>
                  report.accuracy[1] * sum
                      = report.correct[1] * 100 * report.accuracy[2]

\* The run ended with a simulator call that raised.
SimulatorFailed == "SimulatorError" \in report.raised

\* Nothing of the statistics or results sections is in the report.
NoResultsEmitted ==
    /\ [report EXCEPT !.notes = {}, !.raised = {}] = NoRunReport
    /\ stats = NoStats

C21_State ==
    /\ sim_calls <= 1
    /\ SimulatorFailed =>
          /\ sim_calls = 1
          /\ run_pc = "exited"
          /\ exit_status = <<1>>
          /\ {"CRITICAL ERROR", "Traceback"} \cap report.notes # {}
          /\ NoResultsEmitted

C21_Step ==
    /\ sim_calls' # sim_calls => sim_calls = 0 /\ sim_calls' = 1
    /\ SimulatorFailed => UNCHANGED runVars

\* C21: a run calls the simulator at most once; when the call raises, the
\* failure is logged (the 'CRITICAL ERROR' of log_exception, or the
\* traceback), the call is not made again, the run ends with exit status
\* 1, and no statistics or results are in the report then or later.
C21_SimulatorCalledAtMostOnce == []C21_State /\ [][C21_Step]_vars

C21_Witness ==
    /\ script = "superscalar_pipeline.py"
    /\ SimulatorFailed
    /\ sim_calls = 1
    /\ smoke_tests = 1
    /\ "CRITICAL ERROR" \in report.notes
    /\ exit_status = <<1>>

\* What the scripts print, or raise, when they detect an error of the
\* configuration.
ConfigErrorNotes ==
    {CompileMessage(o) : o \in CompileOutcomes \ {"compiled"}}
        \cup {"Failed to make benchmark executable",
              "CRITICAL ERROR: No workload executable set!"}

ConfigErrorDetected ==
    \/ report.notes \cap ConfigErrorNotes # {}
    \/ script = "simple_pipeline.py" /\ "IndexError" \in report.raised

C22_State ==
    ConfigErrorDetected =>
        /\ run_pc = "exited"
        /\ exit_status = <<1>>
        /\ sim_calls = 0

C22_Step == ConfigErrorDetected => UNCHANGED runVars

\* C22: a detected configuration error (no benchmark source, a failed
\* compilation, a benchmark that cannot be made executable, a workload
\* without executable, no memory address range) ends the process with
\* status 1 and the simulator has not been called; nothing follows the
\* exit, so no simulator call follows the error.
C22_ConfigErrorExitsBeforeSimulation == []C22_State /\ [][C22_Step]_vars

C22_Witness ==
    /\ script = "superscalar_pipeline.py"
    /\ "CRITICAL ERROR: No workload executable set!" \in report.notes
    /\ smoke_tests = 1
    /\ exit_status = <<1>>
    /\ sim_calls = 0

\* The topology of the run is complete: the script has come to
\* m5.instantiate() or beyond it.
TopologyBuilt ==
    /\ system # NoSystem
    /\ run_pc \in {"prepared", "instantiated", "checked", "simulated",
                   "branch_stats", "performance"}

CpuPorts == {"cpu.icache_port", "cpu.dcache_port"}

L1Caches == {"l1i", "l1d"}

\* C23: in every built topology both L1 caches exist, no CPU port is
\* linked to the system bus itself, each CPU port is linked to its L1
\* cache, and when there is an L2 cache the L1 caches are linked to the
\* crossbar and the crossbar to the L2, never the L1 caches to the L2
\* itself.
C23_CachesInStrictOrder ==
    TopologyBuilt =>
        /\ L1Caches \subseteq system.objects
        /\ \A p \in CpuPorts : <<p, "membus">> \notin system.links
        /\ CpuToL1 \subseteq system.links
        /\ "l2" \in system.objects =>
              /\ \A c \in L1Caches : <<c, "l2">> \notin system.links
              /\ \A c \in L1Caches : <<c, "tol2bus">> \in system.links
              /\ <<"tol2bus", "l2">> \in system.links

\* The direct run of the benchmark has been attempted.
PastSmokeTest ==
    /\ script = "superscalar_pipeline.py"
    /\ run_pc \in {"prepared", "instantiated", "checked", "simulated",
                   "branch_stats", "performance"}

SmokeReported == {SmokeMessage(o) : o \in SmokeOutcomes} \cap report.notes

C24_State ==
    /\ smoke_tests <= 1
    /\ smoke_tests = 1 => Cardinality(SmokeReported) = 1
    /\ PastSmokeTest => smoke_tests = 1
    /\ sim_calls > 0 /\ script = "superscalar_pipeline.py" => smoke_tests = 1

\* The step of the direct run goes on to the workload and m5.instantiate()
\* whatever its outcome, and the call of the simulator ends only by
\* returning or by raising.
C24_Step ==
    /\ smoke_tests' # smoke_tests =>
          /\ smoke_tests = 0
          /\ run_pc' = "prepared"
          /\ exit_status' = <<>>
    /\ sim_calls' # sim_calls =>
          \/ run_pc' = "simulated" /\ exit_status' = <<>>
          \/ run_pc' = "exited" /\ "SimulatorError" \in report'.raised

\* C24: superscalar_pipeline.py runs the benchmark directly exactly once,
\* with a bounded wait; whether the run returns, times out or raises, the
\* outcome is printed, the run is not made again and the script goes on
\* to instantiate and to call the simulator; the simulator call has no
\* timeout: it ends by returning or by raising, never by being abandoned.
C24_SmokeTestOnceThenGoOn == []C24_State /\ [][C24_Step]_vars

C24_Witness ==
    /\ script = "superscalar_pipeline.py"
    /\ "Process timed out" \in report.notes
    /\ smoke_tests = 1
    /\ sim_calls = 1
    /\ run_pc = "simulated"

====
